---- MODULE Spec2Model ----
(***************************************************************************)
(* TelegramSpider (src/spider.py): the retrieval / filter / aggregate      *)
(* pipeline of fetch_messages, followed by generate_html_report, as run()  *)
(* calls them.                                                             *)
(*                                                                         *)
(* The messaging backend (telethon's iter_messages) is an external         *)
(* collaborator: each channel's history is the finite sequence of messages *)
(* its iterator yields, possibly ending with an exception instead of       *)
(* normal exhaustion.  A message's id is its position in that sequence     *)
(* (ids are unique and increasing within a channel).                       *)
(*                                                                         *)
(* Texts are sequences of characters, "\n" being the line break.  Keyword  *)
(* patterns are literal regular expressions, so re.search(...,IGNORECASE)  *)
(* is a case-insensitive substring search; the empty pattern matches every *)
(* text, the empty one included.                                           *)
(***************************************************************************)
EXTENDS Integers, Sequences, FiniteSets, TLC

\* Bounds of the model.
MaxMsgs == 2        \* messages yielded by all channel histories together
MaxRuns == 2        \* calls of run() on one TelegramSpider object

VARIABLES
    config,             \* self.config: start_date, end_date, keywords, channels
    history,            \* what client.iter_messages yields for each channel
    results_by_group,   \* self.results_by_group: the values, by key
    group_order,        \* self.results_by_group: the keys in insertion order
    pc,                 \* position of run(): start, group, channel, iter, report, done, raised
    gi,                 \* index of the current group (for group in groups)
    ci,                 \* index of the current channel (for channel in channel_list)
    mi,                 \* messages consumed from the current channel's iterator
    errors,             \* what logger.error has reported
    document,           \* the Document built by the last generate_html_report
    saved,              \* outcome of the last document.save: none, ok, failed
    output_file,        \* the file name the last generate_html_report used
    runs,               \* calls of run() so far on this object
    previous_run        \* results and document at the end of the previous run()

vars == <<config, history, results_by_group, group_order, pc, gi, ci, mi,
          errors, document, saved, output_file, runs, previous_run>>

----------------------------------------------------------------------------
(* Dates *)

\* Calendar days, in order, in the '%d.%m.%Y' form of the configuration.
DayStr == <<"31.12.2024", "01.01.2025", "02.01.2025", "03.01.2025">>
Days == DOMAIN DayStr
Hours == {0, 12}
BadDateStr == "2025-01-01"

\* datetime.strptime(s, '%d.%m.%Y'): midnight of the day, or an exception.
strptime(s) ==
    IF \E d \in Days : DayStr[d] = s
    THEN [ok |-> TRUE, day |-> CHOOSE d \in Days : DayStr[d] = s, hour |-> 0]
    ELSE [ok |-> FALSE, day |-> 0, hour |-> 0]

\* message_date.strftime('%d.%m.%Y %H:%M')
strftime(dt) == [dmy |-> DayStr[dt.day], hm |-> <<dt.hour, 0>>]

DateLessEq(a, b) ==
    \/ a.day < b.day
    \/ (a.day = b.day /\ a.hour <= b.hour)

\* message_date < start_date, on datetimes
DateLess(a, b) ==
    \/ a.day < b.day
    \/ (a.day = b.day /\ a.hour < b.hour)

----------------------------------------------------------------------------
(* Texts and keyword patterns *)

NL == "\n"
Lower(ch) == IF ch = "A" THEN "a" ELSE ch

\* re.search(pattern, text, re.IGNORECASE) for a literal pattern
Search(pattern, text) ==
    \E i \in 0..(Len(text) - Len(pattern)) :
        \A j \in 1..Len(pattern) : Lower(text[i + j]) = Lower(pattern[j])

\* str.splitlines()
RECURSIVE splitlines(_)
splitlines(text) ==
    IF text = <<>> THEN <<>>
    ELSE IF \E k \in 1..Len(text) : text[k] = NL
         THEN LET k == CHOOSE k \in 1..Len(text) :
                           /\ text[k] = NL
                           /\ \A j \in 1..(k - 1) : text[j] # NL
              IN <<SubSeq(text, 1, k - 1)>> \o splitlines(SubSeq(text, k + 1, Len(text)))
         ELSE <<text>>

\* "\n".join(lines)
RECURSIVE join(_)
join(lines) ==
    IF lines = <<>> THEN <<>>
    ELSE IF Len(lines) = 1 THEN lines[1]
    ELSE lines[1] \o <<NL>> \o join(Tail(lines))

TruthyAlways(message) == TRUE

\* if message.message: the text is neither None nor ""
Truthy(message) == ~message.is_none /\ message.message # <<>>

\* The dictionary appended for a matching message.
Entry(channel, id, message) ==
    LET lines == splitlines(message.message)
    IN [channel |-> channel,
        id      |-> id,
        title   |-> IF lines # <<>> THEN lines[1] ELSE <<>>,
        content |-> IF Len(lines) > 1 THEN join(Tail(lines)) ELSE <<>>,
        date    |-> strftime(message.date)]

\* The keyword loop without its break: one entry per matching pattern.
RECURSIVE KeywordLoopNoBreak(_, _, _, _, _)
KeywordLoopNoBreak(keywords, k, channel, id, message) ==
    IF k > Len(keywords) THEN <<>>
    ELSE IF Search(keywords[k], message.message)
         THEN <<Entry(channel, id, message)>>
                  \o KeywordLoopNoBreak(keywords, k + 1, channel, id, message)
         ELSE KeywordLoopNoBreak(keywords, k + 1, channel, id, message)

\* for pattern in keywords: if re.search(...): append; break
\* The entries the loop appends, starting at pattern number k.
RECURSIVE KeywordLoop(_, _, _, _, _)
KeywordLoop(keywords, k, channel, id, message) ==
    IF k > Len(keywords) THEN <<>>
    ELSE IF Search(keywords[k], message.message)
         THEN <<Entry(channel, id, message)>>
         ELSE KeywordLoop(keywords, k + 1, channel, id, message)

\* The body of the async for, past the date test: what one message appends.
NewEntries(keywords, channel, id, message) ==
    IF Truthy(message) THEN KeywordLoop(keywords, 1, channel, id, message) ELSE <<>>

----------------------------------------------------------------------------
(* Inputs *)

Channels == {"c1", "c2"}

\* config['channels'], flattened to the (group_name, channel_list) pairs in the
\* order the two nested loops visit them.
GroupConfigs ==
    { << <<"G1", <<"c1", "c2">> >>, <<"G2", <<>> >> >>,
      << <<"G1", <<"c1">> >>,       <<"G2", <<"c2">> >> >>,
      << <<"G1", <<"c1">> >>,       <<"G1", <<"c2">> >> >> }

KeywordLists ==
    { << <<"a">>, <<"b">> >>,
      << <<"d">>, <<>> >> }

StartDates == {"01.01.2025", BadDateStr}

Texts == { <<>>, <<"A", "b">>, <<"c", NL, "d">> }

\* Before the window, on start_date at midnight and later that day, after end_date.
MessageDates ==
    { [day |-> 1, hour |-> 12], [day |-> 2, hour |-> 0],
      [day |-> 2, hour |-> 12], [day |-> 4, hour |-> 0] }

Messages ==
    [date : MessageDates, is_none : {FALSE}, message : Texts]
        \cup [date : MessageDates, is_none : {TRUE}, message : {<<>>}]

NoRun == [results |-> <<>>, order |-> <<>>, document |-> <<>>]

Init ==
    /\ \E channels \in GroupConfigs, keywords \in KeywordLists, start \in StartDates :
           config = [channels   |-> channels,
                     keywords   |-> keywords,
                     start_date |-> start,
                     end_date   |-> "02.01.2025"]
    /\ \E n1 \in 0..MaxMsgs :
         \E n2 \in 0..(MaxMsgs - n1) :
           \E m1 \in [1..n1 -> Messages], m2 \in [1..n2 -> Messages] :
             \E failing \in {{}, {"c1"}, {"c2"}} :
               history = [c \in Channels |->
                            [msgs  |-> IF c = "c1" THEN m1 ELSE m2,
                             fails |-> c \in failing]]
    /\ results_by_group = <<>>
    /\ group_order = <<>>
    /\ pc = "start"
    /\ gi = 1
    /\ ci = 1
    /\ mi = 0
    /\ errors = {}
    /\ document = <<>>
    /\ saved = "none"
    /\ output_file = <<>>
    /\ runs = 1
    /\ previous_run = NoRun

----------------------------------------------------------------------------
(* fetch_messages *)

start_date == strptime(config.start_date)
end_date == strptime(config.end_date)
groups == config.channels
group_name == groups[gi][1]
channel_list == groups[gi][2]
channel == channel_list[ci]

\* The dates parse: the loops start.
FetchBegin ==
    /\ pc = "start"
    /\ start_date.ok /\ end_date.ok
    /\ pc' = "group"
    /\ gi' = 1 /\ ci' = 1 /\ mi' = 0
    /\ UNCHANGED <<config, history, results_by_group, group_order, errors,
                   document, saved, output_file, runs, previous_run>>

\* strptime raises: the error is logged and raised again, out of run().
FetchBadDates ==
    /\ pc = "start"
    /\ ~(start_date.ok /\ end_date.ok)
    /\ errors' = errors \cup {"dates"}
    /\ pc' = "raised"
    /\ UNCHANGED <<config, history, results_by_group, group_order, gi, ci, mi,
                   document, saved, output_file, runs, previous_run>>

\* The mutant: a group's key is created only when it has channels.
GroupBeginSkipEmpty ==
    /\ pc = "group"
    /\ gi <= Len(groups)
    /\ IF group_name \notin DOMAIN results_by_group /\ channel_list # <<>>
       THEN /\ results_by_group' = results_by_group @@ (group_name :> <<>>)
            /\ group_order' = Append(group_order, group_name)
       ELSE UNCHANGED <<results_by_group, group_order>>
    /\ pc' = "channel"
    /\ ci' = 1
    /\ UNCHANGED <<config, history, gi, mi, errors, document, saved, output_file,
                   runs, previous_run>>

\* for group_name, channel_list: the key is created empty if it is absent.
GroupBegin ==
    /\ pc = "group"
    /\ gi <= Len(groups)
    /\ IF group_name \notin DOMAIN results_by_group
       THEN /\ results_by_group' = results_by_group @@ (group_name :> <<>>)
            /\ group_order' = Append(group_order, group_name)
       ELSE UNCHANGED <<results_by_group, group_order>>
    /\ pc' = "channel"
    /\ ci' = 1
    /\ UNCHANGED <<config, history, gi, mi, errors, document, saved, output_file,
                   runs, previous_run>>

\* The group loop is exhausted: fetch_messages returns.
GroupsDone ==
    /\ pc = "group"
    /\ gi > Len(groups)
    /\ pc' = "report"
    /\ UNCHANGED <<config, history, results_by_group, group_order, gi, ci, mi,
                   errors, document, saved, output_file, runs, previous_run>>

\* for channel in channel_list: iter_messages is called on the channel.
ChannelBegin ==
    /\ pc = "channel"
    /\ ci <= Len(channel_list)
    /\ mi' = 0
    /\ pc' = "iter"
    /\ UNCHANGED <<config, history, results_by_group, group_order, gi, ci,
                   errors, document, saved, output_file, runs, previous_run>>

\* The channel loop is exhausted: on to the next group.
ChannelsDone ==
    /\ pc = "channel"
    /\ ci > Len(channel_list)
    /\ gi' = gi + 1
    /\ ci' = 1
    /\ pc' = "group"
    /\ UNCHANGED <<config, history, results_by_group, group_order, mi,
                   errors, document, saved, output_file, runs, previous_run>>

\* The mutant: the message before start_date is skipped, the scan goes on.
ScanBreakContinue ==
    /\ pc = "iter"
    /\ mi < Len(history[channel].msgs)
    /\ DateLess(history[channel].msgs[mi + 1].date, start_date)
    /\ mi' = mi + 1
    /\ UNCHANGED <<config, history, results_by_group, group_order, pc, gi, ci,
                   errors, document, saved, output_file, runs, previous_run>>

\* The iterator yields a message dated before start_date: break.
ScanBreak ==
    /\ pc = "iter"
    /\ mi < Len(history[channel].msgs)
    /\ DateLess(history[channel].msgs[mi + 1].date, start_date)
    /\ ci' = ci + 1
    /\ mi' = 0
    /\ pc' = "channel"
    /\ UNCHANGED <<config, history, results_by_group, group_order, gi,
                   errors, document, saved, output_file, runs, previous_run>>

\* The mutant: the entries are put in front of the group's list.
ScanMessagePrepend ==
    /\ pc = "iter"
    /\ mi < Len(history[channel].msgs)
    /\ LET message == history[channel].msgs[mi + 1]
       IN /\ ~DateLess(message.date, start_date)
          /\ results_by_group' =
                 [results_by_group EXCEPT ![group_name] =
                      NewEntries(config.keywords, channel, mi + 1, message) \o @]
    /\ mi' = mi + 1
    /\ UNCHANGED <<config, history, group_order, pc, gi, ci,
                   errors, document, saved, output_file, runs, previous_run>>

\* The iterator yields a message not before start_date: the loop body runs.
ScanMessage ==
    /\ pc = "iter"
    /\ mi < Len(history[channel].msgs)
    /\ LET message == history[channel].msgs[mi + 1]
       IN /\ ~DateLess(message.date, start_date)
          /\ results_by_group' =
                 [results_by_group EXCEPT ![group_name] =
                      @ \o NewEntries(config.keywords, channel, mi + 1, message)]
    /\ mi' = mi + 1
    /\ UNCHANGED <<config, history, group_order, pc, gi, ci,
                   errors, document, saved, output_file, runs, previous_run>>

\* The iterator is exhausted: the async for ends.
IterExhausted ==
    /\ pc = "iter"
    /\ mi = Len(history[channel].msgs)
    /\ ~history[channel].fails
    /\ ci' = ci + 1
    /\ mi' = 0
    /\ pc' = "channel"
    /\ UNCHANGED <<config, history, results_by_group, group_order, gi,
                   errors, document, saved, output_file, runs, previous_run>>

\* The mutant: the exception is not caught and ends fetch_messages.
IterRaisesAbort ==
    /\ pc = "iter"
    /\ mi = Len(history[channel].msgs)
    /\ history[channel].fails
    /\ errors' = errors \cup {"channel"}
    /\ pc' = "raised"
    /\ UNCHANGED <<config, history, results_by_group, group_order, gi, ci, mi,
                   document, saved, output_file, runs, previous_run>>

\* The iterator raises: except Exception logs it, the channel loop goes on.
IterRaises ==
    /\ pc = "iter"
    /\ mi = Len(history[channel].msgs)
    /\ history[channel].fails
    /\ errors' = errors \cup {"channel"}
    /\ ci' = ci + 1
    /\ mi' = 0
    /\ pc' = "channel"
    /\ UNCHANGED <<config, history, results_by_group, group_order, gi,
                   document, saved, output_file, runs, previous_run>>

----------------------------------------------------------------------------
(* generate_html_report *)

\* The paragraphs of one message: the link, the title, the content.
Block(msg) ==
    [url |-> <<"https://t.me/", msg.channel, msg.id>>,
     title |-> msg.title,
     content |-> msg.content]

\* The document: per group in key order, its heading and its messages' blocks.
BuildDocument(order, results) ==
    [k \in 1..Len(order) |->
        [group  |-> order[k],
         blocks |-> [i \in 1..Len(results[order[k]]) |-> Block(results[order[k]][i])]]]

\* f"звіт_{start_date}.docx" or f"звіт_{start_date}-{end_date}.docx"
DefaultOutputFile ==
    IF config.start_date = config.end_date
    THEN <<"zvit_", config.start_date, ".docx">>
    ELSE <<"zvit_", config.start_date, "-", config.end_date, ".docx">>

\* document.save succeeds.
SaveOk ==
    /\ pc = "report"
    /\ document' = BuildDocument(group_order, results_by_group)
    /\ output_file' = DefaultOutputFile
    /\ saved' = "ok"
    /\ pc' = "done"
    /\ UNCHANGED <<config, history, results_by_group, group_order, gi, ci, mi,
                   errors, runs, previous_run>>

\* The mutant: the exception of document.save leaves generate_html_report.
SaveFailsRaises ==
    /\ pc = "report"
    /\ document' = BuildDocument(group_order, results_by_group)
    /\ output_file' = DefaultOutputFile
    /\ saved' = "failed"
    /\ pc' = "raised"
    /\ UNCHANGED <<config, history, results_by_group, group_order, gi, ci, mi,
                   errors, runs, previous_run>>

\* document.save raises: except Exception logs it, the method returns.
SaveFails ==
    /\ pc = "report"
    /\ document' = BuildDocument(group_order, results_by_group)
    /\ output_file' = DefaultOutputFile
    /\ saved' = "failed"
    /\ errors' = errors \cup {"save"}
    /\ pc' = "done"
    /\ UNCHANGED <<config, history, results_by_group, group_order, gi, ci, mi,
                   runs, previous_run>>

\* After run() has returned, the caller calls generate_html_report again.
RetryReport ==
    /\ pc = "done"
    /\ saved = "failed"
    /\ pc' = "report"
    /\ UNCHANGED <<config, history, results_by_group, group_order, gi, ci, mi,
                   errors, document, saved, output_file, runs, previous_run>>

\* After run() has returned, the caller calls run() again on the same object.
Rerun ==
    /\ pc = "done"
    /\ runs < MaxRuns
    /\ runs' = runs + 1
    /\ previous_run' = [results  |-> results_by_group,
                        order    |-> group_order,
                        document |-> document]
    /\ pc' = "start"
    /\ UNCHANGED <<config, history, results_by_group, group_order, gi, ci, mi,
                   errors, document, saved, output_file>>

----------------------------------------------------------------------------

Next ==
    \/ FetchBegin
    \/ FetchBadDates
    \/ GroupBegin
    \/ GroupsDone
    \/ ChannelBegin
    \/ ChannelsDone
    \/ ScanBreak
    \/ ScanMessage
    \/ IterExhausted
    \/ IterRaises
    \/ SaveOk
    \/ SaveFails
    \/ RetryReport

\* One run() on a fresh TelegramSpider, and retries of the report.
Spec == Init /\ [][Next]_vars

NextRerun == Next \/ Rerun

\* run() called again on the same TelegramSpider.
SpecRerun == Init /\ [][NextRerun]_vars

----------------------------------------------------------------------------
(* Vocabulary of the properties.  It is stated on the inputs (config and   *)
(* history) and on results_by_group, apart from the operators above.       *)

StartDay == strptime(config.start_date).day
EndDay == strptime(config.end_date).day

\* The place <<group index, channel index>> where the configuration lists c.
Places(c) ==
    UNION { {<<g, n>> : n \in {x \in 1..Len(groups[g][2]) : groups[g][2][x] = c}} :
            g \in 1..Len(groups) }
Configured(c) == Places(c) # {}
Place(c) == CHOOSE p \in Places(c) : TRUE
GroupOf(c) == groups[Place(c)[1]][1]
PlaceBefore(p, q) == p[1] < q[1] \/ (p[1] = q[1] /\ p[2] < q[2])

Msgs(c) == history[c].msgs
HasText(m) == ~m.is_none /\ m.message # <<>>
MatchingPatterns(m) ==
    {k \in 1..Len(config.keywords) : Search(config.keywords[k], m.message)}
Matching(m) == HasText(m) /\ MatchingPatterns(m) # {}

\* The first message of c dated before start_date, Len + 1 if there is none.
StopIndex(c) ==
    IF \E i \in 1..Len(Msgs(c)) : Msgs(c)[i].date.day < StartDay
    THEN CHOOSE i \in 1..Len(Msgs(c)) :
             /\ Msgs(c)[i].date.day < StartDay
             /\ \A j \in 1..(i - 1) : Msgs(c)[j].date.day >= StartDay
    ELSE Len(Msgs(c)) + 1

\* The places of group g's list that hold the entry of message i of channel c.
EntriesOf(g, c, i) ==
    {k \in 1..Len(results_by_group[g]) :
        results_by_group[g][k].channel = c /\ results_by_group[g][k].id = i}
NoEntry(c, i) == \A g \in DOMAIN results_by_group : EntriesOf(g, c, i) = {}

FetchReturned == pc \in {"report", "done"}
ScanningNow(c) == pc = "iter" /\ Place(c) = <<gi, ci>>
Finished(c) ==
    \/ FetchReturned
    \/ pc \in {"group", "channel", "iter"} /\ Place(c)[1] < gi
    \/ pc \in {"channel", "iter"} /\ Place(c)[1] = gi /\ Place(c)[2] < ci
\* The loop body has run on message i of channel c.
Examined(c, i) ==
    /\ Configured(c)
    /\ i \in 1..Len(Msgs(c))
    /\ i < StopIndex(c)
    /\ (Finished(c) \/ (ScanningNow(c) /\ i <= mi))

\* Every list of results_by_group keeps its entries, in place, over a step.
EntriesKept ==
    \A g \in DOMAIN results_by_group :
        /\ g \in DOMAIN results_by_group'
        /\ Len(results_by_group[g]) <= Len(results_by_group'[g])
        /\ SubSeq(results_by_group'[g], 1, Len(results_by_group[g])) = results_by_group[g]

----------------------------------------------------------------------------
\* C1: after fetch_messages every entry of results_by_group comes from a
\* message dated inside the window [start_date, end_date]; a matching message
\* dated after end_date that the history yields produces no entry.
C1_EntriesInsideWindow ==
    FetchReturned =>
        \A g \in DOMAIN results_by_group :
            \A k \in 1..Len(results_by_group[g]) :
                LET d == strptime(results_by_group[g][k].date.dmy).day
                IN StartDay <= d /\ d <= EndDay

----------------------------------------------------------------------------
NoEntryPastStop ==
    \A c \in Channels :
        \A i \in 1..Len(Msgs(c)) : i >= StopIndex(c) => NoEntry(c, i)

BreakDue ==
    /\ pc = "iter"
    /\ mi < Len(Msgs(channel))
    /\ Msgs(channel)[mi + 1].date.day < StartDay

\* C2: when the scan of a channel meets a message dated before start_date it
\* stops: the next step is the next channel of the list, nothing is appended
\* for that message, and no message at or after it in the channel's sequence
\* ever has an entry.
C2_StopAtFirstOlder ==
    [][ /\ BreakDue => /\ pc' = "channel"
                       /\ gi' = gi
                       /\ ci' = ci + 1
                       /\ results_by_group' = results_by_group
        /\ NoEntryPastStop' ]_vars

\* A scanned channel stopped before a later message that is inside the
\* window and matches a keyword.
C2_Witness ==
    /\ FetchReturned
    /\ \E c \in Channels :
         /\ Configured(c)
         /\ \E j \in 1..Len(Msgs(c)) :
              /\ j > StopIndex(c)
              /\ Msgs(c)[j].date.day >= StartDay
              /\ Msgs(c)[j].date.day <= EndDay
              /\ Matching(Msgs(c)[j])
              /\ NoEntry(c, j)

----------------------------------------------------------------------------
\* C3, as claimed: for a channel scanned without failure, every matching
\* message with text dated on start_date has an entry in its group's list,
\* and no message dated the day before start_date has one.
C3_StartDateIncluded ==
    FetchReturned =>
        \A c \in Channels :
            (Configured(c) /\ ~history[c].fails) =>
                \A i \in 1..Len(Msgs(c)) :
                    /\ (Msgs(c)[i].date.day = StartDay /\ Matching(Msgs(c)[i]))
                           => EntriesOf(GroupOf(c), c, i) # {}
                    /\ Msgs(c)[i].date.day = StartDay - 1 => NoEntry(c, i)

\* C3, amended: the same, for the messages that no message dated before
\* start_date precedes in the channel's sequence.
C3_StartDateIncludedBeforeStop ==
    FetchReturned =>
        \A c \in Channels :
            (Configured(c) /\ ~history[c].fails) =>
                \A i \in 1..Len(Msgs(c)) :
                    /\ (/\ Msgs(c)[i].date.day = StartDay
                        /\ Matching(Msgs(c)[i])
                        /\ i < StopIndex(c))
                           => EntriesOf(GroupOf(c), c, i) # {}
                    /\ Msgs(c)[i].date.day = StartDay - 1 => NoEntry(c, i)

\* A channel yielded a matching message at midnight of start_date, then one
\* dated the day before: the first has its entry, the second has none.
C3_Witness ==
    /\ FetchReturned
    /\ \E c \in Channels :
         /\ Configured(c) /\ ~history[c].fails
         /\ \E i, j \in 1..Len(Msgs(c)) :
              /\ i < j
              /\ Msgs(c)[i].date = [day |-> StartDay, hour |-> 0]
              /\ Matching(Msgs(c)[i])
              /\ EntriesOf(GroupOf(c), c, i) # {}
              /\ Msgs(c)[j].date.day = StartDay - 1

----------------------------------------------------------------------------
RaiseDue ==
    /\ pc = "iter"
    /\ mi = Len(Msgs(channel))
    /\ history[channel].fails

\* Every message the scan of a configured channel reaches and selects has its
\* entry, whatever happened to the channels before it.
EveryChannelScanned ==
    \A c \in Channels :
        Configured(c) =>
            \A i \in 1..Len(Msgs(c)) :
                (i < StopIndex(c) /\ Matching(Msgs(c)[i]))
                    => EntriesOf(GroupOf(c), c, i) # {}

\* C4: when a channel's iteration fails, the next step is the next channel of
\* the list with results_by_group untouched; no step of the run removes or
\* moves an entry; and when fetch_messages has returned, every channel has
\* been scanned, those after the failed one included.
C4_FailureIsolated ==
    [][ /\ RaiseDue => /\ pc' = "channel"
                       /\ gi' = gi
                       /\ ci' = ci + 1
                       /\ results_by_group' = results_by_group
                       /\ group_order' = group_order
        /\ EntriesKept
        /\ (FetchReturned => EveryChannelScanned)' ]_vars

\* A channel failed after an entry of it was appended, and a channel listed
\* after it has an entry too.
C4_Witness ==
    /\ FetchReturned
    /\ \E c, d \in Channels :
         /\ Configured(c) /\ Configured(d)
         /\ PlaceBefore(Place(c), Place(d))
         /\ history[c].fails
         /\ StopIndex(c) > Len(Msgs(c))
         /\ \E i \in 1..Len(Msgs(c)) : EntriesOf(GroupOf(c), c, i) # {}
         /\ \E i \in 1..Len(Msgs(d)) : EntriesOf(GroupOf(d), d, i) # {}

----------------------------------------------------------------------------
\* Entry e comes before entry f in scan order.
ScannedBefore(e, f) ==
    \/ PlaceBefore(Place(e.channel), Place(f.channel))
    \/ (e.channel = f.channel /\ e.id < f.id)

InScanOrder ==
    \A g \in DOMAIN results_by_group :
        \A i, j \in 1..Len(results_by_group[g]) :
            i < j => ScannedBefore(results_by_group[g][i], results_by_group[g][j])

\* C5: in every group's list the entries of a channel listed earlier come
\* before those of a channel listed later, the entries of one channel come in
\* the order its history yielded them, and a step only appends.
C5_ScanOrder ==
    [][ InScanOrder' /\ EntriesKept ]_vars

\* One group's list holds entries of two channels.
C5_Witness ==
    \E g \in DOMAIN results_by_group :
        \E i, j \in 1..Len(results_by_group[g]) :
            /\ i < j
            /\ results_by_group[g][i].channel # results_by_group[g][j].channel

----------------------------------------------------------------------------
GroupNames == {groups[k][1] : k \in 1..Len(groups)}
\* No channel listed under the name g yields a message that is selected.
NothingToCollect(g) ==
    \A k \in 1..Len(groups) :
        groups[k][1] = g =>
            \A n \in 1..Len(groups[k][2]) :
                \A i \in 1..Len(Msgs(groups[k][2][n])) :
                    ~Matching(Msgs(groups[k][2][n])[i])

----------------------------------------------------------------------------
\* C7: a message with text that two or more keyword patterns match, once the
\* loop body has run on it, has exactly one entry.
C7_OneEntryPerMessage ==
    \A c \in Channels :
        \A i \in 1..Len(Msgs(c)) :
            (/\ Examined(c, i)
             /\ HasText(Msgs(c)[i])
             /\ Cardinality(MatchingPatterns(Msgs(c)[i])) >= 2)
                => /\ Cardinality(EntriesOf(GroupOf(c), c, i)) = 1
                   /\ \A g \in DOMAIN results_by_group :
                          g # GroupOf(c) => EntriesOf(g, c, i) = {}

\* The loop body has run on a message that both patterns match.
C7_Witness ==
    \E c \in Channels :
        \E i \in 1..Len(Msgs(c)) :
            /\ Examined(c, i)
            /\ HasText(Msgs(c)[i])
            /\ Cardinality(MatchingPatterns(Msgs(c)[i])) >= 2
            /\ EntriesOf(GroupOf(c), c, i) # {}

----------------------------------------------------------------------------
\* C8: a message whose text is None or "" never has an entry in any group.
C8_NoEntryWithoutText ==
    \A c \in Channels :
        \A i \in 1..Len(Msgs(c)) :
            (Msgs(c)[i].is_none \/ Msgs(c)[i].message = <<>>) => NoEntry(c, i)

\* The loop body has run on a message with text "" while a keyword pattern
\* matches the empty string.
C8_Witness ==
    /\ \E k \in 1..Len(config.keywords) : config.keywords[k] = <<>>
    /\ \E c \in Channels :
         \E i \in 1..Len(Msgs(c)) :
             /\ Examined(c, i)
             /\ ~Msgs(c)[i].is_none
             /\ Msgs(c)[i].message = <<>>

----------------------------------------------------------------------------
\* C9: a second run() over the same history and configuration ends with the
\* grouped results and the report content the first run ended with.
C9_SecondRunSame ==
    (runs >= 2 /\ pc = "done") =>
        /\ results_by_group = previous_run.results
        /\ group_order = previous_run.order
        /\ document = previous_run.document

----------------------------------------------------------------------------
\* C10, as claimed: when document.save has failed, the caller of
\* generate_html_report gets the failure.
C10_SaveFailureSurfaced ==
    (saved = "failed" /\ pc # "report") => pc = "raised"

\* C10, amended: when document.save fails, generate_html_report logs the
\* error and returns normally; generate_html_report never changes
\* results_by_group.
C10_SaveFailureLogged ==
    [][ /\ pc = "report" => /\ results_by_group' = results_by_group
                            /\ group_order' = group_order
        /\ (pc = "report" /\ saved' = "failed")
               => (pc' = "done" /\ "save" \in errors') ]_vars

\* After a failed save the report was generated again, and saved, from the
\* entries that were collected.
C10_Witness ==
    /\ "save" \in errors
    /\ saved = "ok"
    /\ pc = "done"
    /\ \E g \in DOMAIN results_by_group : results_by_group[g] # <<>>
    /\ document = BuildDocument(group_order, results_by_group)

====
